---- MODULE Spec2Model ----
(***************************************************************************)
(* Model of pubchem_smiles_automation.py: get_smiles_from_pubchem (two     *)
(* sequential HTTP lookups), batch_get_smiles (the paced loop over the     *)
(* names), process_compounds_from_file (file ingestion) and the top-level  *)
(* run (report, CSV, summary).                                             *)
(*                                                                         *)
(* Python values are tagged tuples: <<"none">>, <<"num", n>>,              *)
(* <<"str", chars>>, <<"list", elems>>, <<"dict", pairs>>, a str being the *)
(* sequence of its characters and a dict the sequence of its <<key, value>>*)
(* pairs. json() maps JSON null to None, so <<"none">> is both.            *)
(***************************************************************************)
EXTENDS Integers, Sequences, FiniteSets, TLC

VARIABLES
  entry,        \* which top-level path runs: "main" or "file"
  pc,           \* position of the top-level run and of batch_get_smiles
  content,      \* the characters of the input file, once it is read
  names,        \* compound_names, the argument of batch_get_smiles
  i,            \* the loop index of batch_get_smiles (1-based, 0 before the loop)
  results,      \* the list of rows batch_get_smiles appends to
  smiles,       \* what get_smiles_from_pubchem returned for names[i]
  rpc,          \* position inside get_smiles_from_pubchem
  data,         \* its local: the parsed identifier response
  cid,          \* its local: the first CID
  properties,   \* its local: the first property record
  exc,          \* the exception propagating, "none" when there is none
  results_df,   \* the table returned to the top level (no rows before that)
  csv,          \* the rows written to compound_smiles.csv
  found_count,  \* the found count of the summary line
  trace         \* what the run did outside itself: requests, prints, sleeps

vars == <<entry, pc, content, names, i, results, smiles, rpc, data, cid,
          properties, exc, results_df, csv, found_count, trace>>

\* ------------------------------------------------------------- bounds
\* Longest compound list the top-level run is given.
MaxNames == 2

\* Longest input file, in characters.
MaxFileLen == 4

\* ------------------------------------------------------------- Python values
PyNone == <<"none">>

PyNum(n) == <<"num", n>>

PyStr(s) == <<"str", s>>

PyList(s) == <<"list", s>>

PyDict(s) == <<"dict", s>>

Unset == <<"unset">>

Ok(v) == <<"ok", v>>

Raise(e) == <<"raise", e>>

\* The keys of a dict, and the value under a key it holds.
DictKeys(d) == {d[2][k][1] : k \in 1..Len(d[2])}

DictGet(d, key) == d[2][CHOOSE k \in 1..Len(d[2]) : d[2][k][1] = key][2]

\* x[key] for a str key: a dict looks the key up (KeyError when it is missing),
\* every other type refuses a str subscript (TypeError).
GetKey(x, key) ==
  IF x[1] = "dict"
  THEN IF key \in DictKeys(x) THEN Ok(DictGet(x, key)) ELSE Raise("KeyError")
  ELSE Raise("TypeError")

\* x[0]: a list or str gives its first element (IndexError when empty), a dict
\* parsed from JSON has str keys only (KeyError), None and numbers refuse.
GetIndex0(x) ==
  CASE x[1] = "list" -> IF Len(x[2]) > 0 THEN Ok(x[2][1]) ELSE Raise("IndexError")
    [] x[1] = "str"  -> IF Len(x[2]) > 0 THEN Ok(PyStr(<<x[2][1]>>)) ELSE Raise("IndexError")
    [] x[1] = "dict" -> Raise("KeyError")
    [] OTHER         -> Raise("TypeError")

\* The characters of the two field names, for the str and list forms of `in`.
KeyChars(key) ==
  IF key = "CanonicalSMILES"
  THEN <<"C","a","n","o","n","i","c","a","l","S","M","I","L","E","S">>
  ELSE <<"C","o","n","n","e","c","t","i","v","i","t","y","S","M","I","L","E","S">>

IsSubstring(k, s) ==
  \E j \in 0..(Len(s) - Len(k)) : SubSeq(s, j + 1, j + Len(k)) = k

\* key in x: membership of a key in a dict, of an equal element in a list, of
\* a substring in a str; None and numbers are not iterable (TypeError).
Contains(x, key) ==
  CASE x[1] = "dict" -> Ok(key \in DictKeys(x))
    [] x[1] = "list" -> Ok(\E k \in 1..Len(x[2]) : x[2][k] = PyStr(KeyChars(key)))
    [] x[1] = "str"  -> Ok(IsSubstring(KeyChars(key), x[2]))
    [] OTHER         -> Raise("TypeError")

\* Python truthiness, as `if smiles` tests it.
Truthy(v) ==
  CASE v[1] = "none" -> FALSE
    [] v[1] = "num"  -> v[2] # 0
    [] OTHER         -> Len(v[2]) > 0

\* ------------------------------------------------------------- exceptions
\* The classes of requests.exceptions that requests.get, raise_for_status and
\* json() raise; each derives from RequestException (JSONDecodeError since
\* requests 2.27).
RequestExceptions == {"ConnectionError", "Timeout", "HTTPError", "JSONDecodeError"}

\* except (requests.exceptions.RequestException, KeyError, IndexError)
Caught(e) == e \in RequestExceptions \cup {"KeyError", "IndexError"}

\* ------------------------------------------------------------- URLs
\* urllib.parse.quote: letters, digits and "_.-~/" stay, every other
\* character becomes its %XX escape.
QuoteChar(c) ==
  CASE c = " "  -> <<"%", "2", "0">>
    [] c = "\n" -> <<"%", "0", "A">>
    [] OTHER    -> <<c>>

RECURSIVE quote(_)
quote(s) == IF s = <<>> THEN <<>> ELSE QuoteChar(Head(s)) \o quote(Tail(s))

\* f"{base_url}/{encoded_name}/cids/JSON"
cid_url(compound_name) == <<"GET", "name/cids", quote(compound_name)>>

\* f".../compound/cid/{cid}/property/CanonicalSMILES/JSON"
smiles_url(c) == <<"GET", "cid/property", c>>

\* ------------------------------------------------------------- responses
IdList(c) == PyDict(<< <<"IdentifierList", PyDict(<< <<"CID", c>> >>)>> >>)

\* What json() of the identifier response can be.
CidBodies ==
  { IdList(PyList(<<PyNum(7583)>>)),
    IdList(PyList(<<PyNum(962), PyNum(7583)>>)),
    IdList(PyList(<<>>)),
    IdList(PyNum(962)),
    PyDict(<< <<"Fault", PyDict(<<>>)>> >>),
    PyDict(<< <<"IdentifierList", PyNone>> >>),
    PyList(<<>>) }

PropTable(p) == PyDict(<< <<"PropertyTable", PyDict(<< <<"Properties", p>> >>)>> >>)

CCO == PyStr(<<"C", "C", "O">>)

CC == PyStr(<<"C", "C">>)

\* What the first property record can be.
PropRecords ==
  { PyDict(<< <<"CID", PyNum(7583)>>, <<"CanonicalSMILES", CCO>> >>),
    PyDict(<< <<"CID", PyNum(7583)>>, <<"ConnectivitySMILES", CC>> >>),
    PyDict(<< <<"CanonicalSMILES", CCO>>, <<"ConnectivitySMILES", CC>> >>),
    PyDict(<< <<"CID", PyNum(7583)>> >>),
    PyDict(<< <<"CanonicalSMILES", PyStr(<<>>)>> >>),
    PyDict(<< <<"CanonicalSMILES", PyNone>>, <<"ConnectivitySMILES", CC>> >>),
    PyDict(<< <<"CanonicalSMILES", PyNum(7)>> >>),
    PyStr(<<"C", "C">>),
    PyNone }

\* What json() of the property response can be.
PropBodies ==
  { PropTable(PyList(<<r>>)) : r \in PropRecords } \cup
  { PropTable(PyList(<<>>)), PropTable(PyNone), PyDict(<<>>) }

\* requests.get, raise_for_status and json() either raise or give the body.
HttpOutcomes(bodies) == {Raise(e) : e \in RequestExceptions} \cup {Ok(b) : b \in bodies}

\* ------------------------------------------------------------- get_smiles_from_pubchem
\* data['IdentifierList']['CID'][0]
first_cid(d) ==
  LET a == GetKey(d, "IdentifierList")
      b == IF a[1] = "ok" THEN GetKey(a[2], "CID") ELSE a
  IN  IF b[1] = "ok" THEN GetIndex0(b[2]) ELSE b

\* smiles_data['PropertyTable']['Properties'][0]
first_properties(d) ==
  LET a == GetKey(d, "PropertyTable")
      b == IF a[1] = "ok" THEN GetKey(a[2], "Properties") ELSE a
  IN  IF b[1] = "ok" THEN GetIndex0(b[2]) ELSE b

\* select_smiles with the two fields tried in the other order.
select_smiles_connectivity_first(p) ==
  LET c1 == Contains(p, "ConnectivitySMILES")
      c2 == Contains(p, "CanonicalSMILES")
  IN  IF c1[1] # "ok" THEN c1
      ELSE IF c1[2] THEN GetKey(p, "ConnectivitySMILES")
      ELSE IF c2[1] # "ok" THEN c2
      ELSE IF c2[2] THEN GetKey(p, "CanonicalSMILES")
      ELSE Ok(PyNone)

\* The if / elif / else over the property record: the value returned, or
\* the exception raised.
select_smiles(p) ==
  LET c1 == Contains(p, "CanonicalSMILES")
      c2 == Contains(p, "ConnectivitySMILES")
  IN  IF c1[1] # "ok" THEN c1
      ELSE IF c1[2] THEN GetKey(p, "CanonicalSMILES")
      ELSE IF c2[1] # "ok" THEN c2
      ELSE IF c2[2] THEN GetKey(p, "ConnectivitySMILES")
      ELSE Ok(PyNone)

Diagnostic(name) == <<"print", "Error fetching SMILES", name>>

NoSmiles(name) == <<"print", "No SMILES found", name>>

\* The call ends: `return v` hands the value to the caller. The locals keep
\* what the call last held until the next call starts.
Returns(v) ==
  /\ rpc' = "returned"
  /\ smiles' = v
  /\ pc' = "record"
  /\ exc' = exc

\* An exception e leaves the try block: the except clause returns None for
\* the classes it names, any other class leaves the function.
Fails(e, sofar) ==
  IF Caught(e)
  THEN /\ Returns(PyNone)
       /\ trace' = Append(sofar, Diagnostic(names[i]))
  ELSE /\ rpc' = "raised"
       /\ exc' = e
       /\ trace' = sofar
       /\ UNCHANGED <<smiles, pc>>

\* CidLookup with the failure of the identifier step swallowed: the call goes
\* on to the property request.
CidLookupGoesOn ==
  /\ pc = "resolving" /\ rpc = "cid"
  /\ \E o \in HttpOutcomes(CidBodies) :
       LET r == IF o[1] = "ok" THEN first_cid(o[2]) ELSE o
       IN  /\ data' = IF o[1] = "ok" THEN o[2] ELSE data
           /\ cid' = IF r[1] = "ok" THEN r[2] ELSE PyNone
  /\ rpc' = "prop"
  /\ trace' = Append(trace, cid_url(names[i]))
  /\ UNCHANGED <<entry, content, names, i, results, results_df, csv, found_count,
                 properties, smiles, pc, exc>>

\* Lines 27-36: quote the name, GET the identifier list, take the first CID.
CidLookup ==
  /\ pc = "resolving" /\ rpc = "cid"
  /\ \E o \in HttpOutcomes(CidBodies) :
       LET sent == Append(trace, cid_url(names[i]))
           r    == IF o[1] = "ok" THEN first_cid(o[2]) ELSE o
       IN  /\ data' = IF o[1] = "ok" THEN o[2] ELSE data
           /\ IF r[1] = "ok"
              THEN /\ cid' = r[2]
                   /\ rpc' = "prop"
                   /\ trace' = sent
                   /\ UNCHANGED <<smiles, pc, exc>>
              ELSE /\ Fails(r[2], sent)
                   /\ cid' = cid
           /\ properties' = properties
  /\ UNCHANGED <<entry, content, names, i, results, results_df, csv, found_count>>

\* Lines 39-45: GET the property table of the CID, take the first record.
PropLookup ==
  /\ pc = "resolving" /\ rpc = "prop"
  /\ \E o \in HttpOutcomes(PropBodies) :
       LET sent == Append(trace, smiles_url(cid))
           r    == IF o[1] = "ok" THEN first_properties(o[2]) ELSE o
       IN  /\ IF r[1] = "ok"
              THEN /\ properties' = r[2]
                   /\ rpc' = "select"
                   /\ trace' = sent
                   /\ UNCHANGED <<smiles, pc, exc>>
              ELSE /\ Fails(r[2], sent)
                   /\ properties' = properties
           /\ UNCHANGED <<data, cid>>
  /\ UNCHANGED <<entry, content, names, i, results, results_df, csv, found_count>>

\* Lines 46-53: CanonicalSMILES, else ConnectivitySMILES, else None.
SelectSmiles ==
  /\ pc = "resolving" /\ rpc = "select"
  /\ LET r == select_smiles(properties)
     IN  IF r[1] = "ok"
         THEN /\ Returns(r[2])
              /\ trace' = IF Contains(properties, "CanonicalSMILES")[2]
                             \/ Contains(properties, "ConnectivitySMILES")[2]
                          THEN trace
                          ELSE Append(trace, NoSmiles(names[i]))
         ELSE Fails(r[2], trace)
  /\ UNCHANGED <<entry, content, names, i, results, results_df, csv, found_count,
                 data, cid, properties>>

\* ------------------------------------------------------------- batch_get_smiles
\* The delay argument's default, in tenths of a second.
delay == 2

\* The compound names the top-level run can be given.
MainNames == { <<"w">>, <<"s", " ", "w">> }

\* The top-level list is a non-empty literal.
MainLists == UNION { [1..n -> MainNames] : n \in 1..MaxNames }

\* Lines 71-72: the call starts with an empty list of rows.
Enter(ns, sofar) ==
  /\ names' = ns
  /\ i' = 0
  /\ results' = <<>>
  /\ pc' = "loop"
  /\ trace' = Append(sofar, <<"print", "Processing compounds", Len(ns)>>)

\* Line 134: the top-level run calls batch_get_smiles on its list.
MainStart ==
  /\ pc = "start" /\ entry = "main"
  /\ \E ns \in MainLists : Enter(ns, trace)
  /\ UNCHANGED <<entry, content, smiles, rpc, data, cid, properties, exc,
                 results_df, csv, found_count>>

\* Lines 74-76: the loop takes the next name, prints the progress line and
\* calls get_smiles_from_pubchem.
LoopNext ==
  /\ pc = "loop" /\ i < Len(names)
  /\ i' = i + 1
  /\ trace' = Append(trace, <<"print", "Processing", i + 1, names[i + 1]>>)
  /\ pc' = "resolving"
  /\ rpc' = "cid"
  /\ data' = Unset /\ cid' = Unset /\ properties' = Unset
  /\ UNCHANGED <<entry, content, names, results, smiles, exc, results_df, csv,
                 found_count>>

\* 'Found' if smiles else 'Not Found'
Status(v) == IF Truthy(v) THEN "Found" ELSE "Not Found"

\* Lines 77-81: the row appended for a name.
Row(name, v) == [Compound_Name |-> name, SMILES |-> v, Status |-> Status(v)]

\* The delay test off by one: a delay after the last name too.
NeedsDelayAlways(k, n) == k <= n

\* Line 82: if i < len(compound_names)
NeedsDelay(k, n) == k < n

\* RecordRow keeping only the names that resolved.
RecordRowFoundOnly ==
  /\ pc = "record"
  /\ results' = IF Truthy(smiles) THEN Append(results, [Compound_Name |-> names[i],
                    SMILES |-> smiles, Status |-> "Found"]) ELSE results
  /\ pc' = IF i < Len(names) THEN "sleep" ELSE "loop"
  /\ UNCHANGED <<entry, content, names, i, smiles, rpc, data, cid, properties,
                 exc, results_df, csv, found_count, trace>>

RecordRow ==
  /\ pc = "record"
  /\ results' = Append(results, Row(names[i], smiles))
  /\ pc' = IF NeedsDelay(i, Len(names)) THEN "sleep" ELSE "loop"
  /\ UNCHANGED <<entry, content, names, i, smiles, rpc, data, cid, properties,
                 exc, results_df, csv, found_count, trace>>

\* Line 83: time.sleep(delay)
Sleep ==
  /\ pc = "sleep"
  /\ trace' = Append(trace, <<"sleep", delay>>)
  /\ pc' = "loop"
  /\ UNCHANGED <<entry, content, names, i, results, smiles, rpc, data, cid,
                 properties, exc, results_df, csv, found_count>>

\* Line 85: the loop is over, the rows become the table returned.
BatchReturn ==
  /\ pc = "loop" /\ i >= Len(names)
  /\ results_df' = results
  /\ pc' = IF entry = "main" THEN "report" ELSE "done"
  /\ UNCHANGED <<entry, content, names, i, results, smiles, rpc, data, cid,
                 properties, exc, csv, found_count, trace>>

\* An exception that left get_smiles_from_pubchem meets no handler in
\* batch_get_smiles, none for its class in process_compounds_from_file and
\* none at the top level: the run ends with a traceback.
Unwind ==
  /\ pc = "resolving" /\ rpc = "raised"
  /\ pc' = "aborted"
  /\ UNCHANGED <<entry, content, names, i, results, smiles, rpc, data, cid,
                 properties, exc, results_df, csv, found_count, trace>>

\* ------------------------------------------------------------- process_compounds_from_file
\* Characters str.strip() removes (the ASCII ones).
Whitespace == {" ", "\t", "\n", "\r", "\f"}

FileChars == {"w", "s", " ", "\n"}

FileContents == UNION { [1..n -> FileChars] : n \in 0..MaxFileLen }

\* Iterating a text file: each line ends with its "\n", the last one may not.
RECURSIVE readlines(_)
readlines(s) ==
  IF s = <<>> THEN <<>>
  ELSE LET ends == {k \in 1..Len(s) : s[k] = "\n"}
           n    == IF ends = {} THEN Len(s)
                   ELSE CHOOSE k \in ends : \A m \in ends : k <= m
       IN  <<SubSeq(s, 1, n)>> \o readlines(SubSeq(s, n + 1, Len(s)))

RECURSIVE lstrip(_)
lstrip(s) == IF s # <<>> /\ Head(s) \in Whitespace THEN lstrip(Tail(s)) ELSE s

RECURSIVE rstrip(_)
rstrip(s) ==
  IF s # <<>> /\ s[Len(s)] \in Whitespace THEN rstrip(SubSeq(s, 1, Len(s) - 1)) ELSE s

\* strip that forgets the right end.
strip_left_only(s) == lstrip(s)

strip(s) == rstrip(lstrip(s))

\* [line.strip() for line in f if line.strip()]
RECURSIVE stripped_lines(_)
stripped_lines(ls) ==
  IF ls = <<>> THEN <<>>
  ELSE (IF Len(strip(Head(ls))) > 0 THEN <<strip(Head(ls))>> ELSE <<>>)
       \o stripped_lines(Tail(ls))

\* What open(filename, 'r') can do.
OpenOutcomes == {"ok", "FileNotFoundError", "PermissionError", "IsADirectoryError"}

\* except FileNotFoundError
FileCaught(e) == e = "FileNotFoundError"

\* Lines 98-104: open and read the file and call batch_get_smiles, or print
\* the diagnostic and return an empty table, or let the exception go.
OpenFile ==
  /\ pc = "start" /\ entry = "file"
  /\ \E o \in OpenOutcomes :
       IF o = "ok"
       THEN /\ \E c \in FileContents :
                 /\ content' = c
                 /\ Enter(stripped_lines(readlines(c)), trace)
            /\ UNCHANGED <<exc, results_df>>
       ELSE IF FileCaught(o)
       THEN /\ trace' = Append(trace, <<"print", "Error: File not found">>)
            /\ results_df' = <<>>
            /\ pc' = "done"
            /\ UNCHANGED <<content, names, i, results, exc>>
       ELSE /\ exc' = o
            /\ pc' = "aborted"
            /\ UNCHANGED <<content, names, i, results, results_df, trace>>
  /\ UNCHANGED <<entry, smiles, rpc, data, cid, properties, csv, found_count>>

\* ------------------------------------------------------------- top-level run
\* Lines 136-139: the formatted table.
Report ==
  /\ pc = "report"
  /\ trace' = Append(trace, <<"print", "RESULTS", Len(results_df)>>)
  /\ pc' = "csv"
  /\ UNCHANGED <<entry, content, names, i, results, smiles, rpc, data, cid,
                 properties, exc, results_df, csv, found_count>>

\* Lines 141-142: one CSV row per row of the table.
SaveCsv ==
  /\ pc = "csv"
  /\ csv' = <<"written", Len(results_df)>>
  /\ trace' = Append(trace, <<"print", "Results saved">>)
  /\ pc' = "summary"
  /\ UNCHANGED <<entry, content, names, i, results, smiles, rpc, data, cid,
                 properties, exc, results_df, found_count>>

\* len(results_df[results_df['Status'] == 'Found'])
CountFound(df) == Cardinality({k \in 1..Len(df) : df[k].Status = "Found"})

\* Lines 144-146: the summary line. A table without rows has no Status
\* column to select on.
Summary ==
  /\ pc = "summary"
  /\ IF Len(results_df) = 0
     THEN /\ exc' = "KeyError"
          /\ pc' = "aborted"
          /\ UNCHANGED <<found_count, trace>>
     ELSE /\ found_count' = CountFound(results_df)
          /\ trace' = Append(trace, <<"print", "Summary", CountFound(results_df),
                                      Len(results_df)>>)
          /\ pc' = "done"
          /\ exc' = exc
  /\ UNCHANGED <<entry, content, names, i, results, smiles, rpc, data, cid,
                 properties, results_df, csv>>

\* ------------------------------------------------------------- specification
Init ==
  /\ entry \in {"main", "file"}
  /\ pc = "start"
  /\ content = Unset
  /\ names = <<>>
  /\ i = 0
  /\ results = <<>>
  /\ smiles = Unset
  /\ rpc = "idle"
  /\ data = Unset
  /\ cid = Unset
  /\ properties = Unset
  /\ exc = "none"
  /\ results_df = <<>>
  /\ csv = <<"unwritten">>
  /\ found_count = -1
  /\ trace = <<>>

Next ==
  \/ MainStart
  \/ OpenFile
  \/ LoopNext
  \/ CidLookup
  \/ PropLookup
  \/ SelectSmiles
  \/ RecordRow
  \/ Sleep
  \/ BatchReturn
  \/ Unwind
  \/ Report
  \/ SaveCsv
  \/ Summary

Spec == Init /\ [][Next]_vars

\* ------------------------------------------------------------- properties
IsGet(e, kind) == e[1] = "GET" /\ e[2] = kind

IsProgress(e) == e[1] = "print" /\ e[2] = "Processing"

NumSleeps == Cardinality({k \in 1..Len(trace) : trace[k][1] = "sleep"})

NumRequests == Cardinality({k \in 1..Len(trace) : trace[k][1] = "GET"})

\* The table is the one batch_get_smiles returned.
BatchReturned ==
  /\ pc \in {"report", "csv", "summary", "done"}
  /\ entry = "file" => content # Unset

\* The events of the call in progress, or of the last call: those after the
\* last progress line.
CallStart == CHOOSE k \in 1..Len(trace) :
               IsProgress(trace[k]) /\ \A m \in (k + 1)..Len(trace) : ~IsProgress(trace[m])

CallPropRequests == {k \in CallStart..Len(trace) : IsGet(trace[k], "cid/property")}

\* C1: the table batch_get_smiles returns has one row per input name, row k
\* carrying the k-th name, whatever each lookup gave.
C1_OneRowPerName ==
  BatchReturned =>
    /\ Len(results_df) = Len(names)
    /\ \A k \in 1..Len(names) : results_df[k].Compound_Name = names[k]

C1_Witness ==
  /\ BatchReturned
  /\ Len(names) = 2 /\ names[1] # names[2]
  /\ results_df[1].Status = "Not Found" /\ results_df[2].Status = "Found"

\* C2: no exception leaves get_smiles_from_pubchem: every failure of either
\* HTTP step ends in `return None`.
C2_NoExceptionEscapes == rpc # "raised"

\* C3: get_smiles_from_pubchem returns a non-empty str or None, nothing else.
C3_NonEmptyStrOrAbsent ==
  rpc = "returned" =>
    \/ smiles[1] = "none"
    \/ smiles[1] = "str" /\ Len(smiles[2]) > 0

\* C4: with the first property record obtained, the value returned is the
\* record's CanonicalSMILES when it has that field, its ConnectivitySMILES
\* only when it has no CanonicalSMILES, and None when it has neither.
C4_CanonicalPreferred ==
  (rpc = "returned" /\ properties # Unset /\ properties[1] = "dict") =>
    LET fields == {properties[2][k] : k \in 1..Len(properties[2])}
        has(key) == \E f \in fields : f[1] = key
    IN  /\ has("CanonicalSMILES") => <<"CanonicalSMILES", smiles>> \in fields
        /\ (~has("CanonicalSMILES") /\ has("ConnectivitySMILES")) =>
             <<"ConnectivitySMILES", smiles>> \in fields
        /\ (~has("CanonicalSMILES") /\ ~has("ConnectivitySMILES")) =>
             smiles[1] = "none"

C4_Witness ==
  /\ rpc = "returned" /\ properties # Unset /\ properties[1] = "dict"
  /\ {"CanonicalSMILES", "ConnectivitySMILES"} \subseteq DictKeys(properties)
  /\ smiles = CCO

\* C5: within one call the property request is issued only after the
\* identifier request gave a first CID, and for that CID; a call whose
\* identifier step failed issues no property request.
C5_PropertyAfterCid ==
  /\ \A k \in 1..Len(trace) :
       IsGet(trace[k], "cid/property") => k > 1 /\ IsGet(trace[k - 1], "name/cids")
  /\ (rpc # "idle" /\ cid = Unset) => CallPropRequests = {}
  /\ (rpc # "idle" /\ cid # Unset) =>
       /\ data[1] = "dict"
       /\ \E a \in 1..Len(data[2]) :
            /\ data[2][a][1] = "IdentifierList"
            /\ \E b \in 1..Len(data[2][a][2][2]) :
                 /\ data[2][a][2][2][b][1] = "CID"
                 /\ data[2][a][2][2][b][2][2][1] = cid
       /\ \A k \in CallPropRequests : trace[k][3] = cid

C5_Witness ==
  /\ rpc = "returned" /\ cid = PyNum(962) /\ CallPropRequests # {}
  /\ Len(DictGet(DictGet(data, "IdentifierList"), "CID")[2]) = 2

\* C6: when the file cannot be opened, for whatever reason, the operation
\* prints a diagnostic and returns an empty table; nothing is raised and no
\* request is made.
C6_OpenFailureGivesEmptyTable ==
  (entry = "file" /\ pc # "start" /\ content = Unset) =>
    /\ pc = "done" /\ exc = "none"
    /\ results_df = <<>>
    /\ NumRequests = 0

\* C7: the names handed to batch_get_smiles are the file's lines, each with
\* its surrounding whitespace removed, without the lines that hold
\* whitespace only, in file order.
C7_NamesAreStrippedNonBlankLines ==
  (entry = "file" /\ content # Unset) =>
    LET n        == Len(content)
        newlines == {k \in 1..n : content[k] = "\n"}
        starts   == {k \in 1..n : k = 1 \/ (k - 1) \in newlines}
        last(a)  == IF \E k \in newlines : k >= a
                    THEN CHOOSE k \in newlines : k >= a /\ \A m \in newlines : m >= a => k <= m
                    ELSE n
        ink(a)   == {k \in a..last(a) : content[k] \notin Whitespace}
        kept     == {a \in starts : ink(a) # {}}
        lo(a)    == CHOOSE k \in ink(a) : \A m \in ink(a) : k <= m
        hi(a)    == CHOOSE k \in ink(a) : \A m \in ink(a) : k >= m
    IN  /\ Len(names) = Cardinality(kept)
        /\ \A a \in kept :
             names[Cardinality({b \in kept : b < a}) + 1] = SubSeq(content, lo(a), hi(a))

C7_Witness ==
  /\ entry = "file" /\ pc = "done"
  /\ content = <<"w", "\n", "\n", "s">>
  /\ names = << <<"w">>, <<"s">> >>

\* C8: the names are processed one after the other: a call starts only when
\* the rows of all earlier names are recorded and a delay has followed each
\* of them; no delay follows the last name, so a batch of n names takes n-1
\* delays, and an empty batch none.
C8_SequentialAndPaced ==
  /\ pc = "resolving" => Len(results) = i - 1 /\ NumSleeps = i - 1
  /\ \A k \in 1..Len(trace) :
       IsProgress(trace[k]) =>
         IF trace[k][3] = 1
         THEN \A m \in 1..k : trace[m][1] # "sleep"
         ELSE trace[k - 1][1] = "sleep"
  /\ BatchReturned =>
       NumSleeps = IF Len(names) = 0 THEN 0 ELSE Len(names) - 1

C8_Witness ==
  /\ BatchReturned /\ Len(names) = 2 /\ NumSleeps = 1
  /\ trace[Len(trace)][1] # "sleep"

\* C9: a failing lookup never aborts the run: the top-level run always goes
\* on to the report, the CSV and the summary.
C9_RunNeverAborts == entry = "main" => pc # "aborted"

\* C10: a row says 'Found' exactly when get_smiles_from_pubchem returned
\* something other than None, so every 'Not Found' row has no SMILES.
C10_FoundIffReturned ==
  \A k \in 1..Len(results) :
    results[k].Status = "Found" <=> results[k].SMILES[1] # "none"

====
